---- MODULE Spec2Model ----
(***************************************************************************)
(* The row-dispatch engine of src/src/main.rs: the dispatcher loop of      *)
(* main (lines 102-166), the worker closure (lines 76-90) and the pair of  *)
(* mpsc channels that joins each worker to the dispatcher.                 *)
(*                                                                         *)
(* Option<T> is modelled as a sequence of length at most one: None is <<>> *)
(* and Some(v) is <<v>>.                                                   *)
(***************************************************************************)
EXTENDS Integers, Sequences, FiniteSets, TLC

\* Largest grid size (SIZE) and largest worker pool explored.
MaxSize == 100
MaxThreads == 2
\* The columns of each row that the model keeps: x < MaxCols.
MaxCols == 2
\* The schedules explored: a worker is not scheduled to take up a row that
\* is MaxLead or more rows ahead of the watermark before the watermark has
\* caught up.  (Every such schedule is one the threads can run in.)
MaxLead == 3

\* The divisor of `let log_interval = SIZE / 100;`.
LogDivisor == 100

None == <<>>
Some(v) == <<v>>

VARIABLES
    SIZE,                   \* const SIZE: the grid size (rows and columns)
    thread_count,           \* num_cpus::get(): the size of the worker pool
    cell_fn,                \* which cell function the run is given
    render,                 \* the Field: render[y][x]
    threads,                \* the Vec of (tx_row, rx_result, handle, working)
    rx_row,                 \* per worker: its inbound channel of Option<usize>
    rx_result,              \* per worker: its outbound channel of rows
    wpc,                    \* per worker: "recv", "compute", "exited" or
                            \* (a thread killed from outside) "crashed"
    wy,                     \* per worker: the row index y it is computing
    next_row,
    completed_start_index,
    completed,              \* the VecDeque<bool> window
    pc,                     \* the dispatcher's position
    idx,                    \* the position of the running pass in threads
    sent,                   \* history: the row indices sent, in order
    writes,                 \* history: how often render[y] was assigned
    signals,                \* history: per worker, the None messages sent
    printed                 \* the progress lines written by println!

vars == <<SIZE, thread_count, cell_fn, render, threads, rx_row, rx_result,
          wpc, wy, next_row, completed_start_index, completed, pc, idx,
          sent, writes, signals, printed>>

Rows == 0 .. (SIZE - 1)
Workers == 1 .. thread_count
Cols == 0 .. ((IF SIZE < MaxCols THEN SIZE ELSE MaxCols) - 1)

\* let log_interval = SIZE / 100;
log_interval == SIZE \div LogDivisor

(***************************************************************************)
(* The cell function.  compute_mandelbrot iterates f64 arithmetic, which   *)
(* has no exact counterpart here; it is a pure function of the point with  *)
(* values None or Some(i), i >= 1.  The run is given one of three such     *)
(* functions: the constant None, the constant Some(1), and the first pass  *)
(* of the loop of compute_mandelbrot (i = 1: z = c, has_diverged(z)),      *)
(* which is exact on the rational point.                                   *)
(***************************************************************************)
CellFns == {"none", "one", "escape"}

\* Complex::new((x / SIZE) * 4 - 2, (y / SIZE) * 4 - 2), as the numerators
\* of the two coordinates over the common denominator SIZE.
point_for(x, y) == [r |-> 4 * x - 2 * SIZE, i |-> 4 * y - 2 * SIZE]

\* (self.r * self.r + self.i * self.i) > 4., on numerators over SIZE.
has_diverged(z) == z.r * z.r + z.i * z.i > 4 * SIZE * SIZE

compute_mandelbrot(c) ==
    CASE cell_fn = "none" -> None
      [] cell_fn = "one" -> Some(1)
      [] OTHER -> IF has_diverged(c) THEN Some(1) ELSE None

\* vec![None; SIZE]
EmptyRow == [x \in Cols |-> None]

\* Mutants of ComputeRow: the row of the next index; the vector left as
\* vec![None; SIZE] created it.
ComputeRow_NextRow(y) ==
    [x \in Cols |-> compute_mandelbrot(point_for(x, y + 1))]
ComputeRow_Unfilled(y) == EmptyRow

\* The body of the worker's loop: the row for index y.
ComputeRow(y) == [x \in Cols |-> compute_mandelbrot(point_for(x, y))]

Init ==
    /\ SIZE \in 0 .. MaxSize
    /\ thread_count \in 1 .. MaxThreads
    /\ cell_fn \in CellFns
    /\ render = [y \in Rows |-> EmptyRow]
    /\ threads = [k \in Workers |-> [id |-> k, working |-> None]]
    /\ rx_row = [w \in Workers |-> <<>>]
    /\ rx_result = [w \in Workers |-> <<>>]
    /\ wpc = [w \in Workers |-> "recv"]
    /\ wy = [w \in Workers |-> None]
    /\ next_row = 0
    /\ completed_start_index = 0
    /\ completed = <<>>
    /\ pc = "drain"
    /\ idx = 1
    /\ sent = <<>>
    /\ writes = [y \in Rows |-> 0]
    /\ signals = [w \in Workers |-> 0]
    /\ printed = 0

\* The dispatcher still owns worker w's channel ends (its tuple is in threads).
InPool(w) == \E k \in 1 .. Len(threads) : threads[k].id = w

(***************************************************************************)
(* The worker closure, lines 76-90.                                        *)
(***************************************************************************)

\* The worker's thread has ended, and with it its ends of the two channels.
Gone(w) == wpc[w] \in {"exited", "crashed"}

\* Mutant of IsRow: every message taken for a row index.
IsRow_Any(msg) == TRUE

\* The pattern Ok(Some(y)) of the loop head, on a message that was received.
IsRow(msg) == msg # None

\* while let Ok(Some(y)) = rx_row.recv(): blocks on an empty channel whose
\* sender lives; Ok(None) and Err (sender dropped) both leave the loop.
WorkerRecv(w) ==
    /\ pc # "panicked"
    /\ wpc[w] = "recv"
    /\ IF rx_row[w] = <<>>
       THEN ~InPool(w)
       ELSE IF Head(rx_row[w]) = None
       THEN TRUE
       ELSE Head(rx_row[w])[1] - completed_start_index < MaxLead
    /\ IF rx_row[w] # <<>>
       THEN /\ rx_row' = [rx_row EXCEPT ![w] = Tail(@)]
            /\ IF IsRow(Head(rx_row[w]))
               THEN /\ wpc' = [wpc EXCEPT ![w] = "compute"]
                    /\ wy' = [wy EXCEPT ![w] = Head(rx_row[w])]
               ELSE /\ wpc' = [wpc EXCEPT ![w] = "exited"]
                    /\ wy' = wy
       ELSE /\ wpc' = [wpc EXCEPT ![w] = "exited"]
            /\ UNCHANGED <<rx_row, wy>>
    /\ UNCHANGED <<SIZE, thread_count, cell_fn, render, threads, rx_result,
                   next_row, completed_start_index, completed, pc, idx,
                   sent, writes, signals, printed>>

\* The for x loop and tx_result.send(result).unwrap(): the send fails, and
\* the unwrap ends the thread, when the receiver has been dropped.
WorkerSend(w) ==
    /\ pc # "panicked"
    /\ wpc[w] = "compute"
    /\ IF InPool(w)
       THEN /\ rx_result' = [rx_result EXCEPT
                                ![w] = Append(@, ComputeRow(wy[w][1]))]
            /\ wpc' = [wpc EXCEPT ![w] = "recv"]
       ELSE /\ wpc' = [wpc EXCEPT ![w] = "exited"]
            /\ rx_result' = rx_result
    /\ wy' = [wy EXCEPT ![w] = None]
    /\ UNCHANGED <<SIZE, thread_count, cell_fn, render, threads, rx_row,
                   next_row, completed_start_index, completed, pc, idx,
                   sent, writes, signals, printed>>

(***************************************************************************)
(* The completed window, lines 117-132.                                    *)
(***************************************************************************)

\* Mutant of MarkCompleted: the front entry is set, whatever k is.
MarkCompleted_Front(q, k) ==
    IF q = <<>> THEN <<TRUE>> ELSE [q EXCEPT ![1] = TRUE]

\* Mutant of MarkCompleted: one entry more than needed is pushed.
MarkCompleted_Extra(q, k) ==
    IF k < Len(q)
    THEN [q EXCEPT ![k + 1] = TRUE]
    ELSE q \o [j \in 1 .. (k - Len(q)) |-> FALSE] \o <<TRUE, FALSE>>

\* "add completed rows to memory": push_back(false) until entry k exists,
\* then set it.
MarkCompleted(q, k) ==
    IF k < Len(q)
    THEN [q EXCEPT ![k + 1] = TRUE]
    ELSE q \o [j \in 1 .. (k - Len(q)) |-> FALSE] \o <<TRUE>>

\* Mutant of FrontRun: an `if` for the `while`, at most one pass.
FrontRun_One(q) == IF q # <<>> /\ q[1] THEN 1 ELSE 0

\* The number of passes of `while let Some(true) = completed.front()`.
FrontRun(q) ==
    CHOOSE n \in 0 .. Len(q) :
        /\ \A j \in 1 .. n : q[j]
        /\ n = Len(q) \/ ~q[n + 1]

\* "clear memory": the window and the watermark after the pops.
ClearedWindow(q) == SubSeq(q, FrontRun(q) + 1, Len(q))
\* Mutant of ClearedIndex: the watermark assigned, not advanced.
ClearedIndex_Assign(q, start) == FrontRun(q)
ClearedIndex(q, start) == start + FrontRun(q)

(***************************************************************************)
(* The dispatcher loop, lines 102-166.                                     *)
(***************************************************************************)

\* Mutant of Disconnected: a closed, empty channel taken for an empty one.
Disconnected_Ignored(w) == FALSE

\* try_recv on an empty channel: Err(Disconnected), the sender being gone,
\* rather than Err(Empty).
Disconnected(w) == Gone(w)

\* Mutant of Taken: the assignment read but left in place.
Taken_Kept(t) == t

\* working.take(): the tuple with its assignment emptied.
Taken(t) == [t EXCEPT !.working = None]

\* One pass of the body of `for (_, rx, _, working) in threads.iter_mut()`.
ReceiveResult ==
    /\ pc = "drain"
    /\ idx <= Len(threads)
    /\ LET t == threads[idx]
           w == t.id
       IN  IF rx_result[w] = <<>>
           THEN \* Disconnected (the worker is gone) panics; Empty does nothing
                /\ pc' = IF Disconnected(w) THEN "panicked" ELSE pc
                /\ idx' = idx + 1
                /\ UNCHANGED <<render, threads, rx_result,
                               completed_start_index, completed, writes>>
           ELSE /\ rx_result' = [rx_result EXCEPT ![w] = Tail(@)]
                /\ IF \/ t.working = None                \* take().unwrap()
                      \/ t.working[1] \notin Rows         \* render[row]
                      \/ t.working[1] < completed_start_index  \* row - start
                   THEN /\ pc' = "panicked"
                        /\ UNCHANGED <<render, threads, completed_start_index,
                                       completed, writes, idx>>
                   ELSE LET row == t.working[1]
                            marked == MarkCompleted(completed,
                                          row - completed_start_index)
                        IN  /\ threads' = [threads EXCEPT ![idx] = Taken(t)]
                            /\ render' = [render EXCEPT
                                             ![row] = Head(rx_result[w])]
                            /\ writes' = [writes EXCEPT ![row] = @ + 1]
                            /\ completed' = ClearedWindow(marked)
                            /\ completed_start_index' =
                                   ClearedIndex(marked, completed_start_index)
                            /\ idx' = idx + 1
                            /\ pc' = pc
    /\ UNCHANGED <<SIZE, thread_count, cell_fn, rx_row, wpc, wy, next_row,
                   sent, signals, printed>>

\* The for loop is over: on to threads.retain_mut.
StartDispatch ==
    /\ pc = "drain"
    /\ idx > Len(threads)
    /\ pc' = "dispatch"
    /\ idx' = 1
    /\ UNCHANGED <<SIZE, thread_count, cell_fn, render, threads, rx_row,
                   rx_result, wpc, wy, next_row, completed_start_index,
                   completed, sent, writes, signals, printed>>

\* Mutant of Idle: a worker is given work whether or not it holds a row.
Idle_Always(t) == TRUE

\* working.is_some() is false: the worker may be given something.
Idle(t) == t.working = None

\* Mutants of RowsRemain: the bound included; the last row left out.
RowsRemain_Inclusive == next_row <= SIZE
RowsRemain_Early == next_row + 1 < SIZE

\* next_row < SIZE
RowsRemain == next_row < SIZE

\* Mutants of Advance: next_row left as it is; next_row advanced by two.
Advance_Stuck(n) == n
Advance_Skip(n) == n + 2

\* next_row += 1
Advance(n) == n + 1

\* if next_row % log_interval == 0 (evaluated with log_interval non-zero)
ReportDue(n) == n % log_interval = 0

\* threads with its k-th element removed (the closure returned false).
Dropped(k) == SubSeq(threads, 1, k - 1) \o SubSeq(threads, k + 1, Len(threads))

\* One call of the closure of threads.retain_mut.
DispatchWork ==
    /\ pc = "dispatch"
    /\ idx <= Len(threads)
    /\ LET t == threads[idx]
           w == t.id
       IN  IF ~Idle(t)
           THEN /\ idx' = idx + 1
                /\ UNCHANGED <<threads, rx_row, next_row, pc, sent, signals,
                               printed>>
           ELSE IF Gone(w)
           THEN \* tx.send(..).unwrap() on a channel whose receiver is gone
                /\ pc' = "panicked"
                /\ UNCHANGED <<threads, rx_row, next_row, idx, sent, signals,
                               printed>>
           ELSE IF RowsRemain
           THEN /\ rx_row' = [rx_row EXCEPT ![w] = Append(@, Some(next_row))]
                /\ threads' = [threads EXCEPT
                                  ![idx].working = Some(next_row)]
                /\ next_row' = Advance(next_row)
                /\ sent' = Append(sent, next_row)
                \* next_row % log_interval: the remainder by zero panics
                /\ pc' = IF log_interval = 0 THEN "panicked" ELSE pc
                /\ printed' = IF log_interval # 0 /\ ReportDue(next_row')
                              THEN printed + 1
                              ELSE printed
                /\ idx' = idx + 1
                /\ signals' = signals
           ELSE /\ rx_row' = [rx_row EXCEPT ![w] = Append(@, None)]
                /\ signals' = [signals EXCEPT ![w] = @ + 1]
                /\ threads' = Dropped(idx)
                /\ UNCHANGED <<next_row, pc, idx, sent, printed>>
    /\ UNCHANGED <<SIZE, thread_count, cell_fn, render, rx_result, wpc, wy,
                   completed_start_index, completed, writes>>

\* Mutants of Done: the loop left one row early; the loop never left.
Done_Early == completed_start_index + 1 >= SIZE
Done_Late == completed_start_index > SIZE

\* if completed_start_index == SIZE
Done == completed_start_index = SIZE

\* "break when done", reached when retain_mut has visited every element.
BreakWhenDone ==
    /\ pc = "dispatch"
    /\ idx > Len(threads)
    /\ pc' = IF Done THEN "done" ELSE "drain"
    /\ idx' = 1
    /\ UNCHANGED <<SIZE, thread_count, cell_fn, render, threads, rx_row,
                   rx_result, wpc, wy, next_row, completed_start_index,
                   completed, sent, writes, signals, printed>>

\* A worker thread is terminated from outside while it waits or computes
\* (the fault of the crash scenario; nothing in main.rs does this).
WorkerCrash(w) ==
    /\ pc \notin {"panicked", "done"}
    /\ wpc[w] \in {"recv", "compute"}
    /\ wpc' = [wpc EXCEPT ![w] = "crashed"]
    /\ wy' = [wy EXCEPT ![w] = None]
    /\ UNCHANGED <<SIZE, thread_count, cell_fn, render, threads, rx_row,
                   rx_result, next_row, completed_start_index, completed,
                   pc, idx, sent, writes, signals, printed>>

Dispatcher == ReceiveResult \/ StartDispatch \/ DispatchWork \/ BreakWhenDone

Worker(w) == WorkerRecv(w) \/ WorkerSend(w)

Next == Dispatcher \/ \E w \in Workers : Worker(w)

Spec == Init /\ [][Next]_vars

\* The dispatcher thread and every worker thread keep being scheduled.
FairSpec ==
    /\ Spec
    /\ WF_vars(Dispatcher)
    /\ \A w \in 1 .. MaxThreads : WF_vars(w \in Workers /\ Worker(w))

\* The run with a worker pool of any size, the empty one included.
InitAnyPool ==
    /\ SIZE \in 0 .. MaxSize
    /\ thread_count \in 0 .. MaxThreads
    /\ cell_fn \in CellFns
    /\ render = [y \in Rows |-> EmptyRow]
    /\ threads = [k \in Workers |-> [id |-> k, working |-> None]]
    /\ rx_row = [w \in Workers |-> <<>>]
    /\ rx_result = [w \in Workers |-> <<>>]
    /\ wpc = [w \in Workers |-> "recv"]
    /\ wy = [w \in Workers |-> None]
    /\ next_row = 0
    /\ completed_start_index = 0
    /\ completed = <<>>
    /\ pc = "drain"
    /\ idx = 1
    /\ sent = <<>>
    /\ writes = [y \in Rows |-> 0]
    /\ signals = [w \in Workers |-> 0]
    /\ printed = 0

AnyPoolSpec == InitAnyPool /\ [][Next]_vars

\* The run in which worker threads may be killed; the dispatcher thread
\* keeps being scheduled.
NextCrash == Next \/ \E w \in Workers : WorkerCrash(w)

CrashSpec == Init /\ [][NextCrash]_vars /\ WF_vars(Dispatcher)

(***************************************************************************)
(* Properties.                                                             *)
(***************************************************************************)

\* The rows that have been written into the Field.
Written == {y \in Rows : writes[y] >= 1}

\* The work worker w has been given and the dispatcher has not yet drained:
\* row indices waiting in its channel, the row it computes, its results
\* waiting in the result channel.
Outstanding(w) ==
    Cardinality({k \in 1 .. Len(rx_row[w]) : rx_row[w][k] # None})
        + (IF wpc[w] = "compute" THEN 1 ELSE 0)
        + Len(rx_result[w])

\* C1: for every grid size and every pool of at least one worker the run,
\* fairly scheduled, never aborts and eventually leaves the loop with the
\* watermark at SIZE.
C1_RunTerminates ==
    /\ [](pc # "panicked")
    /\ <>(pc = "done" /\ completed_start_index = SIZE)

\* C2: when the loop has been left, every row index of the grid has been
\* written into the Field.
C2_AllRowsWritten ==
    pc = "done" => \A y \in Rows : writes[y] >= 1
C2_Witness ==
    pc = "done" /\ SIZE >= LogDivisor /\ thread_count = 2

\* C3: when the loop has been left, the Field holds at [y][x] the value of
\* the cell function at point_for(x, y), whatever the number of workers and
\* the order in which they completed.
C3_FieldIsCellFn ==
    pc = "done" =>
        \A y \in Rows : \A x \in Cols :
            render[y][x] = compute_mandelbrot(point_for(x, y))
C3_Witness ==
    /\ pc = "done"
    /\ SIZE >= LogDivisor
    /\ thread_count = 2
    /\ \E y \in Rows : \E x \in Cols : render[y][x] # render[0][0]

\* C4: in every state the watermark is at most the number of rows written,
\* and every row below the watermark has been written.
C4_WatermarkBelowWritten ==
    /\ completed_start_index <= Cardinality(Written)
    /\ \A y \in Rows : y < completed_start_index => writes[y] >= 1
C4_Witness ==
    /\ completed_start_index >= 1
    /\ completed_start_index < Cardinality(Written)
    /\ completed_start_index < SIZE

\* C5 as stated: every row below the watermark differs from the placeholder
\* row a slot holds before it is written.
C5_BelowWatermarkNonDefault ==
    \A y \in Rows : y < completed_start_index => render[y] # EmptyRow

\* C5 as amended: every row below the watermark holds the row the cell
\* function gives for its index, which differs from the placeholder when the
\* cell function is Some at a point of the row.
C5_BelowWatermarkComputed ==
    \A y \in Rows : y < completed_start_index =>
        /\ \A x \in Cols : render[y][x] = compute_mandelbrot(point_for(x, y))
        /\ (\E x \in Cols : compute_mandelbrot(point_for(x, y)) # None)
               => render[y] # EmptyRow
C5_Witness ==
    /\ completed_start_index >= 2
    /\ render[0] # EmptyRow
    /\ completed_start_index < SIZE

\* The step takes a result off the channel of the worker the pass is at.
DrainsResult ==
    /\ pc = "drain"
    /\ idx <= Len(threads)
    /\ idx' = idx + 1
    /\ Len(rx_result'[threads[idx].id]) < Len(rx_result[threads[idx].id])

\* The length of the window once the row that was drained is marked.
MarkedLen ==
    LET k == threads[idx].working[1] - completed_start_index
    IN  IF k + 1 > Len(completed) THEN k + 1 ELSE Len(completed)

\* C6: no step lowers the watermark, a step raises it by exactly the number
\* of entries popped off the window, and it never exceeds SIZE.
C6_WatermarkMonotone ==
    [][/\ completed_start_index' >= completed_start_index
       /\ completed_start_index' <= SIZE
       /\ completed_start_index' - completed_start_index
              = (IF DrainsResult THEN MarkedLen ELSE Len(completed))
                    - Len(completed')]_vars
C6_Witness ==
    /\ completed_start_index >= MaxLead
    /\ Len(completed) >= 2
    /\ completed_start_index < SIZE

\* C7: no worker has more than one row outstanding, and no row index is
\* recorded for two workers at once.
C7_OneRowPerWorker ==
    /\ \A w \in Workers : Outstanding(w) <= 1
    /\ \A i \in 1 .. Len(threads) : \A j \in 1 .. Len(threads) :
           (i # j /\ threads[i].working # None)
               => threads[i].working # threads[j].working
C7_Witness ==
    /\ Len(threads) = 2
    /\ threads[1].working # None
    /\ threads[2].working # None
    /\ Outstanding(1) = 1
    /\ Outstanding(2) = 1

\* C8: no row index is sent to a worker twice and no slot of the Field is
\* written twice.
C8_AtMostOnce ==
    /\ Cardinality({sent[k] : k \in 1 .. Len(sent)}) = Len(sent)
    /\ \A y \in Rows : writes[y] <= 1
C8_Witness ==
    /\ Len(sent) >= 3
    /\ Cardinality(Written) >= 2
    /\ thread_count = 2

\* C9: the k-th row index sent is k - 1, whichever worker it goes to, and
\* next_row is the number of rows sent.
C9_RowsSentInOrder ==
    /\ \A k \in 1 .. Len(sent) : sent[k] = k - 1
    /\ next_row = Len(sent)
C9_Witness ==
    /\ Len(threads) = 2
    /\ threads[1].working # None
    /\ threads[2].working # None
    /\ threads[1].working[1] > threads[2].working[1]

\* C10: the loop is left only with the watermark at SIZE, and no further
\* pass is begun once the watermark is at SIZE.
C10_ExitIffWatermarkAtSize ==
    [][/\ (pc # "done" /\ pc' = "done") => completed_start_index = SIZE
       /\ (pc = "dispatch" /\ pc' = "drain")
              => completed_start_index # SIZE]_vars
C10_Witness ==
    pc = "done" /\ completed_start_index = SIZE /\ SIZE >= LogDivisor

\* Some worker was killed while it held an assigned row whose result it had
\* not sent.
CrashedHolding ==
    \E k \in 1 .. Len(threads) :
        /\ wpc[threads[k].id] = "crashed"
        /\ threads[k].working # None
        /\ rx_result[threads[k].id] = <<>>

\* C11: once a worker has been killed holding an undelivered row, the loop
\* is not left normally, and the dispatcher, being scheduled, aborts.
C11_CrashAborts ==
    /\ [](CrashedHolding => pc # "done")
    /\ (CrashedHolding ~> pc = "panicked")
C11_Witness ==
    /\ pc = "panicked"
    /\ CrashedHolding
    /\ SIZE >= LogDivisor
    /\ completed_start_index >= 1

C13_EmptyGrid ==
    /\ [](SIZE = 0 =>
            /\ sent = <<>>
            /\ render = <<>>
            /\ \A w \in Workers :
                   /\ rx_result[w] = <<>>
                   /\ wpc[w] # "compute"
                   /\ \A k \in 1 .. Len(rx_row[w]) : rx_row[w][k] = None
                   /\ signals[w] <= 1
                   /\ pc = "done" => signals[w] = 1
            /\ \A k \in 1 .. Len(threads) : threads[k].working = None)
    /\ [][SIZE = 0 => ~(pc = "dispatch" /\ pc' = "drain")]_vars
C13_Witness ==
    /\ SIZE = 0
    /\ pc = "done"
    /\ thread_count = 2
    /\ \A w \in Workers : wpc[w] = "exited"

\* C14: when SIZE <= thread_count at most SIZE rows are ever sent, and the
\* run reaches its normal exit with every row written and every worker sent
\* the termination signal.
C14_SmallGridCompletes ==
    (SIZE <= thread_count) =>
        /\ [](Len(sent) <= SIZE /\ pc # "panicked")
        /\ <>(/\ pc = "done"
              /\ \A y \in Rows : writes[y] = 1
              /\ \A w \in Workers : signals[w] = 1)

\* C15: a worker is sent the termination signal only while idle and with
\* next_row = SIZE; a signalled worker is out of the pool and its row channel
\* is never written again; at the normal exit every worker has been signalled
\* exactly once and the pool holds no assignment.
C15_SignalOnlyAtEnd ==
    /\ [](/\ \A w \in Workers :
                /\ signals[w] <= 1
                /\ signals[w] = 1 => ~InPool(w) /\ next_row = SIZE
                /\ pc = "done" => signals[w] = 1
          /\ pc = "done" => threads = <<>>)
    /\ [][\A w \in Workers :
             /\ signals'[w] # signals[w] =>
                    /\ next_row = SIZE
                    /\ threads[idx].id = w
                    /\ threads[idx].working = None
             /\ signals[w] = 1 =>
                    \/ rx_row'[w] = rx_row[w]
                    \/ rx_row'[w] = Tail(rx_row[w])]_vars
C15_Witness ==
    /\ SIZE >= LogDivisor
    /\ \E w \in Workers : signals[w] = 1 /\ wpc[w] = "exited"
    /\ \E k \in 1 .. Len(threads) : threads[k].working # None

\* C16: a worker starts computing only by taking a row index from its
\* channel; it leaves the computation by sending exactly the row it computed;
\* a result appears on its channel in no other way; taking None makes it
\* exit, and an exited worker stays exited and sends nothing.
C16_WorkerProtocol ==
    [][\A w \in Workers :
          /\ (wpc[w] # "compute" /\ wpc'[w] = "compute") =>
                 /\ wpc[w] = "recv"
                 /\ rx_row[w] # <<>>
                 /\ Head(rx_row[w]) # None
                 /\ wy'[w] = Head(rx_row[w])
                 /\ rx_row'[w] = Tail(rx_row[w])
          /\ (wpc[w] = "compute" /\ wpc'[w] # "compute") =>
                 /\ wpc'[w] = "recv"
                 /\ rx_result'[w] =
                        Append(rx_result[w], ComputeRow(wy[w][1]))
          /\ Len(rx_result'[w]) > Len(rx_result[w]) => wpc[w] = "compute"
          /\ (/\ wpc[w] = "recv"
              /\ rx_row[w] # <<>>
              /\ rx_row'[w] # rx_row[w]
              /\ Head(rx_row[w]) = None) => wpc'[w] = "exited"
          /\ wpc[w] = "exited" =>
                 /\ wpc'[w] = "exited"
                 /\ Len(rx_result'[w]) <= Len(rx_result[w])]_vars
C16_Witness ==
    /\ SIZE >= LogDivisor
    /\ \E w \in Workers :
           /\ wpc[w] = "exited"
           /\ signals[w] = 1
           /\ rx_row[w] = <<>>
           /\ \E k \in 1 .. Len(sent) : writes[sent[k]] = 1
    /\ \E v \in Workers : wpc[v] = "compute"

\* C17: for every SIZE >= 0 the step that sends a row and then decides
\* whether to report progress leaves the dispatcher where the same step
\* without the report leaves it: still in the dispatch pass, with only the
\* count of reports possibly changed by the report.
C17_ReportObservational ==
    [][sent' # sent =>
          /\ pc' = pc
          /\ idx' = idx + 1
          /\ next_row' = Advance(next_row)]_vars

\* The workers the dispatcher records an assignment for.
Holding == {k \in 1 .. Len(threads) : threads[k].working # None}

\* C18 as stated: whenever the result for row r is drained,
\* r - completed_start_index < thread_count, and the window never holds more
\* than thread_count entries.
C18_WindowWithinPool ==
    /\ [](Len(completed) <= thread_count)
    /\ [][DrainsResult =>
             threads[idx].working[1] - completed_start_index
                 < thread_count]_vars

\* C18, amended: a drained row r satisfies
\* completed_start_index <= r < next_row; the window never reaches beyond the
\* rows already sent; and its unmarked entries are at most as many as the
\* workers holding an assignment, hence at most thread_count.
C18_WindowWithinSent ==
    /\ [](/\ Len(completed) <= next_row - completed_start_index
          /\ Cardinality({i \in 1 .. Len(completed) : ~completed[i]})
                 <= Cardinality(Holding)
          /\ Cardinality(Holding) <= thread_count)
    /\ [][DrainsResult =>
             /\ completed_start_index <= threads[idx].working[1]
             /\ threads[idx].working[1] < next_row]_vars
C18_Witness ==
    /\ SIZE >= LogDivisor
    /\ thread_count = 2
    /\ Len(completed) > thread_count
    /\ ~completed[1]

\* C19: entry i of the window (counted from 0) is true exactly when row
\* completed_start_index + i has been written; no row at or beyond
\* completed_start_index + Len(completed) has been written; the window is
\* empty or has a false front and a true back; and every row a worker holds,
\* hence every row drained, is at or above the watermark.
C19_WindowExact ==
    /\ completed_start_index + Len(completed) <= SIZE
    /\ \A i \in 1 .. Len(completed) :
           completed[i] <=> writes[completed_start_index + i - 1] >= 1
    /\ \A y \in Rows :
           y >= completed_start_index + Len(completed) => writes[y] = 0
    /\ completed # <<>> => ~completed[1] /\ completed[Len(completed)]
    /\ \A k \in 1 .. Len(threads) :
           threads[k].working # None =>
               threads[k].working[1] >= completed_start_index
C19_Witness ==
    /\ SIZE >= LogDivisor
    /\ completed_start_index >= 1
    /\ Len(completed) = 3
    /\ writes[completed_start_index] = 0
    /\ writes[completed_start_index + 1] = 1
    /\ writes[completed_start_index + 2] = 1

\* C20: without a worker crash, work is outstanding for a worker (a row in
\* its channel, a row being computed, a result waiting) only if the pool
\* records an assignment for it, and then it is that row and its result; a
\* result channel holds at most one result; the only panic is the remainder
\* by zero; completed_start_index <= next_row <= SIZE; and next_row minus the
\* number of rows written is the number of workers holding an assignment.
C20_AssignmentMatchesWork ==
    /\ \A w \in Workers :
           /\ Len(rx_result[w]) <= 1
           /\ Outstanding(w) >= 1 =>
                  \E k \in 1 .. Len(threads) :
                      /\ threads[k].id = w
                      /\ threads[k].working # None
    /\ \A k \in Holding :
           LET w == threads[k].id
               a == threads[k].working
           IN  /\ wpc[w] = "compute" => wy[w] = a
               /\ \A j \in 1 .. Len(rx_row[w]) : rx_row[w][j] = a
               /\ rx_result[w] # <<>> =>
                      rx_result[w] = <<ComputeRow(a[1])>>
    /\ pc = "panicked" => log_interval = 0 /\ sent # <<>>
    /\ completed_start_index <= next_row
    /\ next_row <= SIZE
    /\ next_row - Cardinality(Written) = Cardinality(Holding)
C20_Witness ==
    /\ SIZE >= LogDivisor
    /\ completed_start_index >= 1
    /\ Cardinality(Holding) = 2
    /\ \E w \in Workers : rx_result[w] # <<>>
    /\ \E w \in Workers : wpc[w] = "compute"

====
